---- MODULE Spec2Model ----
(***************************************************************************)
(* A model of dbcParser.py: the CANDatabase / CANMessage / CANSignal       *)
(* classes and CANDatabase.Load, the line-driven ingestion of a .dbc file. *)
(*                                                                         *)
(* Text is modelled at character level: a Python str is a sequence of      *)
(* one-character strings, so that splitting, stripping, tokenizing and     *)
(* int() are computed the way the code computes them.                      *)
(***************************************************************************)
EXTENDS Integers, Sequences, FiniteSets, TLC

(***************************************************************************)
(* Bounds of the model.                                                    *)
(***************************************************************************)
\* lines read from files by the whole process (all Load calls together)
MaxLines == 5
\* CANDatabase instances the process constructs, one after the other
MaxDatabases == 2

(***************************************************************************)
(* Python str and int primitives.                                          *)
(***************************************************************************)
Digits == <<"0", "1", "2", "3", "4", "5", "6", "7", "8", "9">>
HexDigits == Digits \o <<"A", "B", "C", "D", "E", "F">>

\* s[a..b] as a sequence; empty when a > b
Slice(s, a, b) == IF a > b THEN <<>> ELSE SubSeq(s, a, b)

\* str.startswith(prefix)
StartsWith(s, prefix) ==
    /\ Len(s) >= Len(prefix)
    /\ Slice(s, 1, Len(prefix)) = prefix

\* str.split(sep) for a one-character sep: every occurrence separates, empty
\* strings between adjacent separators are kept
RECURSIVE SplitFrom(_, _, _, _)
SplitFrom(s, sep, i, part) ==
    IF i > Len(s) THEN <<part>>
    ELSE IF s[i] = sep THEN <<part>> \o SplitFrom(s, sep, i + 1, <<>>)
    ELSE SplitFrom(s, sep, i + 1, Append(part, s[i]))

Split(s, sep) == SplitFrom(s, sep, 1, <<>>)

\* str.rstrip(c) for a one-character c
RECURSIVE RStrip(_, _)
RStrip(s, c) ==
    IF s # <<>> /\ s[Len(s)] = c THEN RStrip(Slice(s, 1, Len(s) - 1), c) ELSE s

\* str.lstrip(c) for a one-character c
RECURSIVE LStrip(_, _)
LStrip(s, c) ==
    IF s # <<>> /\ s[1] = c THEN LStrip(Slice(s, 2, Len(s)), c) ELSE s

\* str.strip(c) for a one-character c
Strip(s, c) == RStrip(LStrip(s, c), c)

\* the value of one digit character in the digit table
DigitValue(table, c) == (CHOOSE k \in 1..Len(table) : table[k] = c) - 1

IsDigitOf(table, c) == \E k \in 1..Len(table) : table[k] = c

\* the body of an integer literal: int() accepts one optional sign
Unsigned(s) == IF s # <<>> /\ s[1] \in {"+", "-"} THEN Slice(s, 2, Len(s)) ELSE s

\* does int(s, base) succeed (no ValueError)? Surrounding blanks are accepted
\* by int(); underscores and an 0x prefix are not in the alphabet of the
\* modelled inputs.
CanInt(s, table) ==
    LET t == Unsigned(Strip(s, " "))
    IN  /\ t # <<>>
        /\ \A k \in 1..Len(t) : IsDigitOf(table, t[k])

RECURSIVE Magnitude(_, _)
Magnitude(t, table) ==
    IF t = <<>> THEN 0
    ELSE Magnitude(Slice(t, 1, Len(t) - 1), table) * Len(table)
         + DigitValue(table, t[Len(t)])

\* int(s, base), defined when CanInt(s, table)
ToInt(s, table) ==
    LET u == Strip(s, " ")
        m == Magnitude(Unsigned(u), table)
    IN  IF u[1] = "-" THEN 0 - m ELSE m

(***************************************************************************)
(* valueLineSplit (the VAL_ line tokenizer).                               *)
(***************************************************************************)
Quote == "\""

\* the loop of valueLineSplit from character i on, with the locals
\* components, part and in_quotes; what is returned is components
RECURSIVE valueLineSplitLoop(_, _, _, _, _)
valueLineSplitLoop(line, i, components, part, in_quotes) ==
    IF i > Len(line) THEN components
    ELSE IF line[i] = " " /\ ~in_quotes
        THEN valueLineSplitLoop(line, i + 1, Append(components, part), <<>>, in_quotes)
    ELSE IF line[i] = Quote /\ ~in_quotes
        THEN valueLineSplitLoop(line, i + 1, components, part, TRUE)
    ELSE IF line[i] = Quote /\ in_quotes
        THEN valueLineSplitLoop(line, i + 1, components, part, FALSE)
    ELSE valueLineSplitLoop(line, i + 1, components, Append(part, line[i]), in_quotes)

valueLineSplit(line) == valueLineSplitLoop(line, 1, <<>>, <<>>, FALSE)

(***************************************************************************)
(* The signal grammar __regex_pattern__ and re.match.                      *)
(*                                                                         *)
(* A pattern is a sequence of elements; each matches between lo and hi     *)
(* characters of a class, greedily with backtracking, and may capture      *)
(* what it matched into a named group.                                     *)
(***************************************************************************)
NoGroup == "-"

\* star: no upper limit on the repetition (hi is then unused)
Elem(any, chars, lo, hi, star, group) ==
    [any |-> any, chars |-> chars, lo |-> lo, hi |-> hi, star |-> star,
     group |-> group]

\* a literal run of characters
Literal(s) == [k \in 1..Len(s) |-> Elem(FALSE, {s[k]}, 1, 1, FALSE, NoGroup)]
\* (?P<group>.*)
DotStar(group) == <<Elem(TRUE, {}, 0, 0, TRUE, group)>>
\* (?P<group>[0-9]{1,2})
OneOrTwoDigits(group) == <<Elem(FALSE, {Digits[k] : k \in 1..Len(Digits)}, 1, 2, FALSE, group)>>
\* (?P<group>[...]) for one character of a class
OneOf(chars, group) == <<Elem(FALSE, chars, 1, 1, FALSE, group)>>
\* (\s{1,2})
OneOrTwoSpaces == <<Elem(FALSE, {" ", "\t"}, 1, 2, FALSE, NoGroup)>>

regex_pattern ==
    Literal(<<" ", "S", "G", "_", " ">>) \o DotStar("name")
    \o Literal(<<" ", ":", " ">>) \o OneOrTwoDigits("start_bit")
    \o Literal(<<"|">>) \o OneOrTwoDigits("length")
    \o Literal(<<"@">>) \o OneOf({"0", "1"}, "format") \o OneOf({"+", "-"}, "type")
    \o Literal(<<" ", "(">>) \o DotStar("factor")
    \o Literal(<<",">>) \o DotStar("offset")
    \o Literal(<<")", " ", "[">>) \o DotStar("min")
    \o Literal(<<"|">>) \o DotStar("max")
    \o Literal(<<"]", " ", Quote>>) \o DotStar("unit")
    \o Literal(<<Quote>>) \o OneOrTwoSpaces \o DotStar("rx_nodes")

NoMatch == [ok |-> FALSE, groups |-> <<>>]

ElemAccepts(e, c) == e.any \/ c \in e.chars

\* the longest run of characters from text[ti] on that element e can take
RECURSIVE RunLength(_, _, _, _)
RunLength(e, text, ti, n) ==
    IF /\ ti + n <= Len(text)
       /\ (e.star \/ n < e.hi)
       /\ ElemAccepts(e, text[ti + n])
    THEN RunLength(e, text, ti, n + 1)
    ELSE n

\* match pat[pi..] against text[ti..]: a prefix match, as re.match does.
\* An element that takes exactly one character either takes it or fails; a
\* repetition takes the longest run with which the rest of the pattern still
\* matches (greedy, backing off one character at a time).
RECURSIVE MatchFrom(_, _, _, _)
MatchFrom(pat, text, pi, ti) ==
    IF pi > Len(pat) THEN [ok |-> TRUE, groups |-> <<>>]
    ELSE
        LET e == pat[pi]
            run == RunLength(e, text, ti, 0)
            fits == IF run < e.lo THEN {}
                    ELSE IF e.lo = run THEN {run}
                    ELSE {k \in e.lo..run : MatchFrom(pat, text, pi + 1, ti + k).ok}
        IN  IF fits = {} THEN NoMatch
            ELSE
                LET k == CHOOSE x \in fits : \A y \in fits : y <= x
                    rest == MatchFrom(pat, text, pi + 1, ti + k)
                IN  IF ~rest.ok THEN NoMatch
                    ELSE IF e.group = NoGroup THEN rest
                    ELSE [ok |-> TRUE,
                          groups |-> <<<<e.group, Slice(text, ti, ti + k - 1)>>>>
                                     \o rest.groups]

ReMatch(pat, text) == MatchFrom(pat, text, 1, 1)

\* result.group(name)
Group(result, name) ==
    LET k == CHOOSE x \in 1..Len(result.groups) : result.groups[x][1] = name
    IN  result.groups[k][2]

(***************************************************************************)
(* The lines a .dbc file is made of in this model (the text of each is in  *)
(* the comment above it; the trailing newline is already stripped, as      *)
(* line 78 does).  VAL_ lines give the message identifier in hexadecimal,  *)
(* so 10 there is message 16.                                              *)
(***************************************************************************)
\* BU_: A B
Line_Nodes ==
    <<"B", "U", "_", ":", " ", "A", " ", "B">>

\* BO_ 16 M: 8 A
Line_Header16 ==
    <<"B", "O", "_", " ", "1", "6", " ", "M", ":", " ", "8", " ", "A">>

\* BO_ 10 K: 2 B
Line_Header10 ==
    <<"B", "O", "_", " ", "1", "0", " ", "K", ":", " ", "2", " ", "B">>

\*  SG_ S : 8|8@1+ (1,0) [0|9] "u" A,B
Line_SignalS ==
    <<" ", "S", "G", "_", " ", "S", " ", ":", " ", "8", "|", "8", "@", "1",
    "+", " ", "(", "1", ",", "0", ")", " ", "[", "0", "|", "9", "]", " ",
    Quote, "u", Quote, " ", "A", ",", "B">>

\*  SG_ T : 0|4@0- (2,1) [0|3] ""  B,A
Line_SignalT ==
    <<" ", "S", "G", "_", " ", "T", " ", ":", " ", "0", "|", "4", "@", "0",
    "-", " ", "(", "2", ",", "1", ")", " ", "[", "0", "|", "3", "]", " ",
    Quote, Quote, " ", " ", "B", ",", "A">>

\*  SG_ S: 8|8@1+ (1,0) [0|9] "u" A
Line_SignalBad ==
    <<" ", "S", "G", "_", " ", "S", ":", " ", "8", "|", "8", "@", "1", "+",
    " ", "(", "1", ",", "0", ")", " ", "[", "0", "|", "9", "]", " ", Quote,
    "u", Quote, " ", "A">>

\* (the empty line)
Line_Blank ==
    <<>>

\* VAL_ 10 S 0 "Id le" 1 "Run" ;
Line_Value ==
    <<"V", "A", "L", "_", " ", "1", "0", " ", "S", " ", "0", " ", Quote,
    "I", "d", " ", "l", "e", Quote, " ", "1", " ", Quote, "R", "u", "n",
    Quote, " ", ";">>

\* VAL_ 10 S 0 "Idle" 1 ;
Line_ValueOdd ==
    <<"V", "A", "L", "_", " ", "1", "0", " ", "S", " ", "0", " ", Quote,
    "I", "d", "l", "e", Quote, " ", "1", " ", ";">>

\* VAL_ 10 Z 0 "x" ;
Line_ValueNoSignal ==
    <<"V", "A", "L", "_", " ", "1", "0", " ", "Z", " ", "0", " ", Quote,
    "x", Quote, " ", ";">>

\* VAL_ 7 S 0 "x" ;
Line_ValueNoMessage ==
    <<"V", "A", "L", "_", " ", "7", " ", "S", " ", "0", " ", Quote, "x",
    Quote, " ", ";">>

\* BA_DEF_ BO_  "P" INT 0 9;
Line_AttrDef ==
    <<"B", "A", "_", "D", "E", "F", "_", " ", "B", "O", "_", " ", " ",
    Quote, "P", Quote, " ", "I", "N", "T", " ", "0", " ", "9", ";">>

\* BA_ "P" BO_ 16 5;
Line_Attr ==
    <<"B", "A", "_", " ", Quote, "P", Quote, " ", "B", "O", "_", " ", "1",
    "6", " ", "5", ";">>

\* CM_ SG_ 16 S hi yo
Line_Comment ==
    <<"C", "M", "_", " ", "S", "G", "_", " ", "1", "6", " ", "S", " ", "h",
    "i", " ", "y", "o">>

\* CM_ x
Line_CommentShort ==
    <<"C", "M", "_", " ", "x">>

\* NS_ :
Line_Other ==
    <<"N", "S", "_", " ", ":">>

Lines ==
    <<Line_Nodes,
      Line_Header16,
      Line_Header10,
      Line_SignalS,
      Line_SignalT,
      Line_SignalBad,
      Line_Blank,
      Line_Value,
      Line_ValueOdd,
      Line_ValueNoSignal,
      Line_ValueNoMessage,
      Line_AttrDef,
      Line_Attr,
      Line_Comment,
      Line_CommentShort,
      Line_Other>>

LineIds == 1..Len(Lines)

(***************************************************************************)
(* Entities.  None is the empty sequence, an object reference a sequence   *)
(* of one record.                                                          *)
(***************************************************************************)
None == <<>>

\* CANSignal.__init__
CANSignal(name, sigtype, sigformat, startbit, length, offset, factor, minVal, maxVal, unit, rx_nodes) ==
    [name |-> name, type |-> sigtype, format |-> sigformat,
     startbit |-> startbit, length |-> length, offset |-> offset,
     factor |-> factor, minVal |-> minVal, maxVal |-> maxVal, units |-> unit,
     values |-> <<>>, comment |-> <<>>, rx_nodes |-> rx_nodes]

\* CANMessage.__init__
CANMessage(msg_id, msg_name, msg_dlc, msg_tx) ==
    [canID |-> msg_id, name |-> msg_name, dlc |-> msg_dlc, txNode |-> msg_tx,
     idType |-> None, comment |-> <<>>, signals |-> <<>>, attributes |-> <<>>,
     iter_index |-> 0, subscribers |-> <<>>]

\* AddSignal, were the signals kept in start-bit order (CANSignal.__lt__)
AddSignal_ByStartBit(msg, signal) ==
    LET before == SelectSeq(msg.signals, LAMBDA x : x.startbit <= signal.startbit)
        after == SelectSeq(msg.signals, LAMBDA x : x.startbit > signal.startbit)
    IN  [msg EXCEPT !.signals = before \o <<signal>> \o after]

\* CANMessage.AddSignal
AddSignal(msg, signal) == [msg EXCEPT !.signals = Append(@, signal)]

\* AddAttribute, were the pair's name appended to the subscribers instead
AddAttribute_ToSubscribers(msg, attr_tuple) ==
    [msg EXCEPT !.subscribers = Append(@, attr_tuple[1])]

\* CANMessage.AddAttribute
AddAttribute(msg, attr_tuple) == [msg EXCEPT !.attributes = Append(@, attr_tuple)]

\* `for signal in msg: if signal.Name() == name: ...; break`: __iter__ puts
\* the cursor at 0, __next__ walks it; the index of the signal the loop stops
\* at, 0 when it runs to StopIteration
FindSignal(msg, name) ==
    LET hits == {k \in 1..Len(msg.signals) : msg.signals[k].name = name}
    IN  IF hits = {} THEN 0 ELSE CHOOSE k \in hits : \A j \in hits : k <= j

\* AddValue, were a mapping that names no signal given to the first signal
AddValue_ToFirstSignal(msg, value_tuple) ==
    LET k == FindSignal(msg, value_tuple[1])
    IN  IF msg.signals = <<>> THEN [msg EXCEPT !.iter_index = 0]
        ELSE IF k = 0
        THEN [msg EXCEPT !.iter_index = 0, !.signals[1].values = value_tuple[3]]
        ELSE [msg EXCEPT !.iter_index = k, !.signals[k].values = value_tuple[3]]

\* CANMessage.AddValue, with CANSignal.SetValues: the cursor is left on the
\* matched signal by the break, and back at 0 when no signal matched
AddValue(msg, value_tuple) ==
    LET k == FindSignal(msg, value_tuple[1])
    IN  IF k = 0 THEN [msg EXCEPT !.iter_index = 0]
        ELSE [msg EXCEPT !.iter_index = k, !.signals[k].values = value_tuple[3]]

\* the inner loop, were the `not in` test missing
RECURSIVE AddSubscribers_Repeating(_, _, _)
AddSubscribers_Repeating(subscribers, nodes, i) ==
    IF i > Len(nodes) THEN subscribers
    ELSE AddSubscribers_Repeating(Append(subscribers, nodes[i]), nodes, i + 1)

\* the inner loop of CANMessage.UpdateSubscribers over one signal's nodes
RECURSIVE AddSubscribers(_, _, _)
AddSubscribers(subscribers, nodes, i) ==
    IF i > Len(nodes) THEN subscribers
    ELSE IF \E j \in 1..Len(subscribers) : subscribers[j] = nodes[i]
        THEN AddSubscribers(subscribers, nodes, i + 1)
    ELSE AddSubscribers(Append(subscribers, nodes[i]), nodes, i + 1)

\* the outer loop of CANMessage.UpdateSubscribers from signal k on
RECURSIVE SubscribersFrom(_, _, _)
SubscribersFrom(subscribers, signals, k) ==
    IF k > Len(signals) THEN subscribers
    ELSE SubscribersFrom(AddSubscribers(subscribers, signals[k].rx_nodes, 1),
                         signals, k + 1)

\* CANMessage.UpdateSubscribers: the loop runs to StopIteration, cursor at 0
UpdateSubscribers(msg) ==
    [msg EXCEPT !.subscribers = SubscribersFrom(@, msg.signals, 1),
                !.iter_index = 0]

(***************************************************************************)
(* Field extractors.  Each gives [outcome, value]: outcome "ok", or the    *)
(* exception the Python code raises ("IndexError": a token is missing,     *)
(* "ValueError": int() of a non-number, "AttributeError": a method of the  *)
(* None that re.match returned), or "None" for Load's `return None`.       *)
(***************************************************************************)
Ok(value) == [outcome |-> "ok", value |-> <<value>>]
Fails(outcome) == [outcome |-> outcome, value |-> <<>>]

\* CANDatabase._parseMessageHeader
parseMessageHeader(line) ==
    LET items == Split(line, " ")
    IN  IF Len(items) < 2 THEN Fails("IndexError")
        ELSE IF ~CanInt(items[2], Digits) THEN Fails("ValueError")
        ELSE IF Len(items) < 4 THEN Fails("IndexError")
        ELSE IF ~CanInt(items[4], Digits) THEN Fails("ValueError")
        ELSE IF Len(items) < 5 THEN Fails("IndexError")
        ELSE Ok(CANMessage(ToInt(items[2], Digits), RStrip(items[3], ":"),
                           ToInt(items[4], Digits), items[5]))

\* CANDatabase._parseSignalEntry
parseSignalEntry(line) ==
    LET result == ReMatch(regex_pattern, line)
    IN  IF ~result.ok THEN Fails("AttributeError")
        ELSE IF \E g \in {"factor", "offset", "min", "max"} :
                    ~CanInt(Group(result, g), Digits)
            THEN Fails("ValueError")
        ELSE Ok(CANSignal(Group(result, "name"),
                          Group(result, "type"),
                          ToInt(Group(result, "format"), Digits),
                          ToInt(Group(result, "start_bit"), Digits),
                          ToInt(Group(result, "length"), Digits),
                          ToInt(Group(result, "offset"), Digits),
                          ToInt(Group(result, "factor"), Digits),
                          ToInt(Group(result, "min"), Digits),
                          ToInt(Group(result, "max"), Digits),
                          Group(result, "unit"),
                          Split(Group(result, "rx_nodes"), ",")))

\* the pairs loop, were a code without its name dropped and the line kept
RECURSIVE valuePairs_DroppingLast(_, _, _)
valuePairs_DroppingLast(pairs, i, items) ==
    IF i > Len(pairs) THEN Ok(items)
    ELSE IF ~CanInt(pairs[i], Digits) THEN Fails("ValueError")
    ELSE IF i + 1 > Len(pairs) THEN Ok(items)
    ELSE valuePairs_DroppingLast(pairs, i + 2,
             Append(items, <<ToInt(pairs[i], Digits), pairs[i + 1]>>))

\* the pairs loop of a VAL_ line: int() of a code may raise ValueError, a
\* code without its name is the IndexError that Load answers by returning None
RECURSIVE valuePairs(_, _, _)
valuePairs(pairs, i, items) ==
    IF i > Len(pairs) THEN Ok(items)
    ELSE IF ~CanInt(pairs[i], Digits) THEN Fails("ValueError")
    ELSE IF i + 1 > Len(pairs) THEN Fails("None")
    ELSE valuePairs(pairs, i + 2,
                    Append(items, <<ToInt(pairs[i], Digits), pairs[i + 1]>>))

\* the VAL_ branch up to the lookup: the tuple (name, CAN id, item pairs)
parseValue(line) ==
    LET val_components == valueLineSplit(line)
    IN  IF Len(val_components) < 3 THEN Fails("IndexError")
        ELSE IF ~CanInt(val_components[2], HexDigits) THEN Fails("ValueError")
        ELSE LET items == valuePairs(Slice(val_components, 4, Len(val_components)),
                                     1, <<>>)
             IN  IF items.outcome # "ok" THEN items
                 ELSE Ok(<<val_components[3],
                           ToInt(val_components[2], HexDigits),
                           items.value[1]>>)

\* the BA_DEF_ BO_ branch: the tuple (name, type, min, max)
parseAttributeDefinition(line) ==
    LET components == Split(line, " ")
    IN  IF Len(components) < 7 THEN Fails("IndexError")
        ELSE Ok(<<Strip(components[4], Quote), components[5], components[6],
                  RStrip(components[7], ";")>>)

\* the BA_ branch up to the lookup: the message id and the tuple (name, value)
parseAttribute(line) ==
    LET components == Split(line, " ")
    IN  IF Len(components) < 4 THEN Fails("IndexError")
        ELSE IF ~CanInt(components[4], Digits) THEN Fails("ValueError")
        ELSE IF Len(components) < 5 THEN Fails("IndexError")
        ELSE Ok([msgID |-> ToInt(components[4], Digits),
                 attr |-> <<Strip(components[2], Quote),
                            RStrip(components[5], ";")>>])

\* `for each in components[4:]: comment_str += each`
RECURSIVE Concat(_, _)
Concat(parts, i) ==
    IF i > Len(parts) THEN <<>> ELSE parts[i] \o Concat(parts, i + 1)

\* CANDatabase._parseTransmittingNodes: the names appended to _txNodes
RECURSIVE transmittingNodes(_, _)
transmittingNodes(items, i) ==
    IF i > Len(items) THEN <<>>
    ELSE IF items[i] = <<"B", "U", "_", ":">> THEN transmittingNodes(items, i + 1)
    ELSE <<items[i]>> \o transmittingNodes(items, i + 1)

parseTransmittingNodes(line) == transmittingNodes(Split(line, " "), 1)

\* the if/elif chain of Load: which branch takes the line
Branch(line, building) ==
    IF StartsWith(line, <<"B", "U", "_", ":">>) THEN "BU_"
    ELSE IF StartsWith(line, <<"B", "O", "_">>) THEN "BO_"
    ELSE IF StartsWith(line, <<" ", "S", "G", "_">>) /\ building THEN "SG_"
    ELSE IF line = <<>> THEN "blank"
    ELSE IF StartsWith(line, <<"V", "A", "L", "_">>) THEN "VAL_"
    ELSE IF StartsWith(line, <<"B", "A", "_", "D", "E", "F", "_", " ", "B", "O", "_">>)
        THEN "BA_DEF_"
    ELSE IF StartsWith(line, <<"B", "A", "_", " ">>) THEN "BA_"
    ELSE IF StartsWith(line, <<"C", "M", "_">>) THEN "CM_"
    ELSE "other"

(***************************************************************************)
(* The extractors applied to each line of the alphabet, computed once.     *)
(***************************************************************************)
\* the table <<F(Lines[1]), ..., F(Lines[n])>> of an extractor F
RECURSIVE TableFrom(_, _)
TableFrom(F(_), i) ==
    IF i > Len(Lines) THEN <<>> ELSE <<F(Lines[i])>> \o TableFrom(F, i + 1)

BranchBuilding(line) == Branch(line, TRUE)
BranchIdle(line) == Branch(line, FALSE)
SplitAtSpaces(line) == Split(line, " ")

BranchWhileBuilding == TableFrom(BranchBuilding, 1)
BranchWhileIdle == TableFrom(BranchIdle, 1)
BranchOf(building, i) ==
    IF building THEN BranchWhileBuilding[i] ELSE BranchWhileIdle[i]
HeaderOf == TableFrom(parseMessageHeader, 1)
SignalOf == TableFrom(parseSignalEntry, 1)
ValueOf == TableFrom(parseValue, 1)
AttributeDefinitionOf == TableFrom(parseAttributeDefinition, 1)
AttributeOf == TableFrom(parseAttribute, 1)
TransmittingNodesOf == TableFrom(parseTransmittingNodes, 1)
ComponentsOf == TableFrom(SplitAtSpaces, 1)

(***************************************************************************)
(* State.                                                                  *)
(*                                                                         *)
(* _messages, _txNodes and _attributes are class attributes of             *)
(* CANDatabase holding one list object each.  __init__ binds none of       *)
(* them, `self._messages += [..]` and `self._txNodes += [..]` extend the   *)
(* class's list in place and bind the instance attribute to that same      *)
(* list, and `self._attributes.append(..)` appends to it: every instance   *)
(* reads and writes the one list, which is why each is one variable here.  *)
(* _iter_index is an int, rebound per instance by every assignment.        *)
(***************************************************************************)
VARIABLES
    messages,          \* CANDatabase._messages, the list shared by all instances
    txNodes,           \* CANDatabase._txNodes, likewise
    attributes,        \* CANDatabase._attributes, likewise
    instances,         \* how many CANDatabase objects have been constructed
    status,            \* per instance: where it is in its life, how Load ended
    iter_index,        \* per instance: CANDatabase._iter_index
    building_message,  \* local of Load
    can_msg,           \* local of Load: None or the CANMessage being built
    line_number,       \* local of Load
    line,              \* local of Load: the line read last (its index in Lines)
    lines_read,        \* lines read by the process so far
    block,             \* history: the open header line and the signal lines after it
    closed             \* history: the header lines a blank line closed, in order

vars == <<messages, txNodes, attributes, instances, status, iter_index,
          building_message, can_msg, line_number, line, lines_read, block, closed>>

Databases == 1..MaxDatabases

\* the instance whose Load is running (instances are used one after the other)
self == instances

\* CANDatabase.Messages
Messages(db) == messages

Init ==
    /\ messages = <<>>
    /\ txNodes = <<>>
    /\ attributes = <<>>
    /\ instances = 0
    /\ status = [db \in Databases |-> "absent"]
    /\ iter_index = [db \in Databases |-> 0]
    /\ building_message = FALSE
    /\ can_msg = None
    /\ line_number = 0
    /\ line = 0
    /\ lines_read = 0
    /\ block = <<>>
    /\ closed = <<>>

Finished(db) == status[db] \notin {"absent", "constructed", "loading"}

\* CANDatabase.__init__: only _dbcPath is bound
NewDatabase ==
    /\ instances < MaxDatabases
    /\ IF instances = 0 THEN TRUE ELSE Finished(instances)
    /\ instances' = instances + 1
    /\ status' = [status EXCEPT ![instances + 1] = "constructed"]
    /\ UNCHANGED <<messages, txNodes, attributes, iter_index, building_message,
                   can_msg, line_number, line, lines_read, block, closed>>

\* Load, lines 66-76: the file opens
LoadOpen ==
    /\ instances > 0
    /\ status[self] = "constructed"
    /\ status' = [status EXCEPT ![self] = "loading"]
    /\ building_message' = FALSE
    /\ can_msg' = None
    /\ line_number' = 0
    /\ line' = 0
    /\ block' = <<>>
    /\ UNCHANGED <<messages, txNodes, attributes, instances, iter_index,
                   lines_read, closed>>

\* Load, lines 66-71: open raises OSError, Load returns None
LoadOpenFails ==
    /\ instances > 0
    /\ status[self] = "constructed"
    /\ status' = [status EXCEPT ![self] = "None"]
    /\ UNCHANGED <<messages, txNodes, attributes, instances, iter_index,
                   building_message, can_msg, line_number, line, lines_read,
                   block, closed>>

\* History, kept from the text of the lines alone: a header line opens a
\* block (and drops the block that was open), a signal line joins the open
\* block, a blank line closes it.
IsHeaderLine(i) == BranchWhileBuilding[i] = "BO_"
IsSignalLine(i) == BranchWhileBuilding[i] = "SG_"
IsBlankLine(i) == BranchWhileBuilding[i] = "blank"

Recorded(i) ==
    /\ block' = IF IsHeaderLine(i) THEN <<i>>
                ELSE IF IsBlankLine(i) THEN <<>>
                ELSE IF IsSignalLine(i) /\ block # <<>> THEN Append(block, i)
                ELSE block
    /\ closed' = IF IsBlankLine(i) /\ block # <<>> THEN Append(closed, block[1])
                 ELSE closed

\* the head of the loop body, lines 77-79: line i is read and branch takes it
Reads(i, branch) ==
    /\ instances > 0
    /\ status[self] = "loading"
    /\ lines_read < MaxLines
    /\ BranchOf(building_message, i) = branch
    /\ line' = i
    /\ line_number' = line_number + 1
    /\ lines_read' = lines_read + 1
    /\ Recorded(i)

\* an exception leaves Load (outcome names it), or Load returns None
Leaves(outcome) == status' = [status EXCEPT ![self] = outcome]

\* `for message in self: if message.CANID() == id: ...; break`, with
\* CANDatabase.__iter__ (which does not move the cursor) and __next__: the
\* index of the message the loop stops at, 0 when it runs to StopIteration
FindMessage(db, id) ==
    LET hits == {j \in (iter_index[db] + 1)..Len(messages) : messages[j].canID = id}
    IN  IF hits = {} THEN 0 ELSE CHOOSE j \in hits : \A k \in hits : j <= k

\* lines 81-82
ReadTransmittingNodes ==
    \E i \in LineIds :
        /\ Reads(i, "BU_")
        /\ txNodes' = txNodes \o TransmittingNodesOf[i]
        /\ UNCHANGED <<messages, attributes, instances, status, iter_index,
                       building_message, can_msg>>

\* lines 84-86
ReadMessageHeader ==
    \E i \in LineIds :
        /\ Reads(i, "BO_")
        /\ LET header == HeaderOf[i]
           IN  IF header.outcome = "ok"
               THEN /\ can_msg' = header.value
                    /\ building_message' = TRUE
                    /\ UNCHANGED status
               ELSE /\ Leaves(header.outcome)
                    /\ UNCHANGED <<can_msg, building_message>>
        /\ UNCHANGED <<messages, txNodes, attributes, instances, iter_index>>

\* ReadSignal, were a signal line that fails the grammar skipped and the
\* parse continued
ReadSignal_SkippingMalformed ==
    \E i \in LineIds :
        /\ Reads(i, "SG_")
        /\ LET signal == SignalOf[i]
           IN  IF signal.outcome = "ok"
               THEN can_msg' = <<AddSignal(can_msg[1], signal.value[1])>>
               ELSE UNCHANGED can_msg
        /\ UNCHANGED <<messages, txNodes, attributes, instances, status,
                       iter_index, building_message>>

\* lines 88-89
ReadSignal ==
    \E i \in LineIds :
        /\ Reads(i, "SG_")
        /\ LET signal == SignalOf[i]
           IN  IF signal.outcome = "ok"
               THEN /\ can_msg' = <<AddSignal(can_msg[1], signal.value[1])>>
                    /\ UNCHANGED status
               ELSE /\ Leaves(signal.outcome)
                    /\ UNCHANGED can_msg
        /\ UNCHANGED <<messages, txNodes, attributes, instances, iter_index,
                       building_message>>

\* lines 91-96
ReadBlank ==
    \E i \in LineIds :
        /\ Reads(i, "blank")
        /\ IF building_message
           THEN /\ building_message' = FALSE
                /\ messages' = Append(messages, UpdateSubscribers(can_msg[1]))
                /\ can_msg' = None
           ELSE UNCHANGED <<building_message, messages, can_msg>>
        /\ UNCHANGED <<txNodes, attributes, instances, status, iter_index>>

\* lines 98-120
ReadValue ==
    \E i \in LineIds :
        /\ Reads(i, "VAL_")
        /\ LET new_value == ValueOf[i]
           IN  IF new_value.outcome = "ok"
               THEN LET j == FindMessage(self, new_value.value[1][2])
                    IN  /\ iter_index' = [iter_index EXCEPT ![self] = j]
                        /\ messages' =
                             IF j = 0 THEN messages
                             ELSE [messages EXCEPT
                                     ![j] = AddValue(@, new_value.value[1])]
                        /\ UNCHANGED status
               ELSE /\ Leaves(new_value.outcome)
                    /\ UNCHANGED <<iter_index, messages>>
        /\ UNCHANGED <<txNodes, attributes, instances, building_message, can_msg>>

\* lines 123-132
ReadAttributeDefinition ==
    \E i \in LineIds :
        /\ Reads(i, "BA_DEF_")
        /\ LET new_attr == AttributeDefinitionOf[i]
           IN  IF new_attr.outcome = "ok"
               THEN /\ attributes' = Append(attributes, new_attr.value[1])
                    /\ UNCHANGED status
               ELSE /\ Leaves(new_attr.outcome)
                    /\ UNCHANGED attributes
        /\ UNCHANGED <<messages, txNodes, instances, iter_index, building_message,
                       can_msg>>

\* lines 134-145
ReadAttribute ==
    \E i \in LineIds :
        /\ Reads(i, "BA_")
        /\ LET parsed == AttributeOf[i]
           IN  IF parsed.outcome = "ok"
               THEN LET j == FindMessage(self, parsed.value[1].msgID)
                    IN  /\ iter_index' = [iter_index EXCEPT ![self] = j]
                        /\ messages' =
                             IF j = 0 THEN messages
                             ELSE [messages EXCEPT
                                     ![j] = AddAttribute(@, parsed.value[1].attr)]
                        /\ UNCHANGED status
               ELSE /\ Leaves(parsed.outcome)
                    /\ UNCHANGED <<iter_index, messages>>
        /\ UNCHANGED <<txNodes, attributes, instances, building_message, can_msg>>

\* lines 151-160 for a CM_ line of more than two tokens: the message loop
\* takes at most one message from the cursor, whatever it is, and breaks
CommentLookup(components) ==
    IF iter_index[self] = Len(messages)
    THEN /\ iter_index' = [iter_index EXCEPT ![self] = 0]
         /\ UNCHANGED <<messages, status>>
    ELSE LET j == iter_index[self] + 1
             message == messages[j]
         IN  /\ iter_index' = [iter_index EXCEPT ![self] = j]
             /\ IF ~CanInt(components[3], Digits)
                THEN /\ Leaves("ValueError")
                     /\ UNCHANGED messages
                ELSE IF message.canID # ToInt(components[3], Digits)
                THEN UNCHANGED <<messages, status>>
                ELSE IF message.signals = <<>>
                THEN /\ messages' = [messages EXCEPT ![j].iter_index = 0]
                     /\ UNCHANGED status
                ELSE IF Len(components) < 4
                THEN /\ Leaves("IndexError")
                     /\ messages' = [messages EXCEPT ![j].iter_index = 1]
                ELSE LET k == FindSignal(message, components[4])
                     IN  /\ messages' =
                              IF k = 0
                              THEN [messages EXCEPT ![j].iter_index = 0]
                              ELSE [messages EXCEPT
                                      ![j].iter_index = k,
                                      ![j].signals[k].comment = Concat(components, 5)]
                         /\ UNCHANGED status

\* ReadComment, were a CM_ line of at most two tokens skipped and the
\* parse continued
ReadComment_SkippingShort ==
    \E i \in LineIds :
        /\ Reads(i, "CM_")
        /\ LET components == ComponentsOf[i]
           IN  IF Len(components) <= 2
               THEN UNCHANGED <<iter_index, status, messages>>
               ELSE CommentLookup(components)
        /\ UNCHANGED <<txNodes, attributes, instances, building_message, can_msg>>

\* lines 147-164: a CM_ line; one of at most two tokens breaks out of the
\* loop over the file, and Load returns self (lines 162-164)
ReadComment ==
    \E i \in LineIds :
        /\ Reads(i, "CM_")
        /\ LET components == ComponentsOf[i]
           IN  IF Len(components) <= 2
               THEN /\ iter_index' = [iter_index EXCEPT ![self] = 0]
                    /\ Leaves("self")
                    /\ UNCHANGED messages
               ELSE CommentLookup(components)
        /\ UNCHANGED <<txNodes, attributes, instances, building_message, can_msg>>

\* ReadOther, were a line that no branch knows taken for the end of the
\* message under construction
ReadOther_ClosingMessage ==
    \E i \in LineIds :
        /\ Reads(i, "other")
        /\ IF building_message
           THEN /\ building_message' = FALSE
                /\ messages' = Append(messages, UpdateSubscribers(can_msg[1]))
                /\ can_msg' = None
           ELSE UNCHANGED <<building_message, messages, can_msg>>
        /\ UNCHANGED <<txNodes, attributes, instances, status, iter_index>>

\* ReadOther, were a signal line met while no message is under construction
\* run through the grammar and its signal dropped
ReadOther_ParsingSignals ==
    \E i \in LineIds :
        /\ Reads(i, "other")
        /\ IF IsSignalLine(i) /\ SignalOf[i].outcome # "ok"
           THEN Leaves(SignalOf[i].outcome)
           ELSE UNCHANGED status
        /\ UNCHANGED <<messages, txNodes, attributes, instances, iter_index,
                       building_message, can_msg>>

\* no branch of the chain takes the line
ReadOther ==
    \E i \in LineIds :
        /\ Reads(i, "other")
        /\ UNCHANGED <<messages, txNodes, attributes, instances, status,
                       iter_index, building_message, can_msg>>

\* EndOfFile, were a message still under construction closed by the end
\* of the file
EndOfFile_ClosingMessage ==
    /\ instances > 0
    /\ status[self] = "loading"
    /\ iter_index' = [iter_index EXCEPT ![self] = 0]
    /\ Leaves("self")
    /\ messages' = IF building_message
                   THEN Append(messages, UpdateSubscribers(can_msg[1]))
                   ELSE messages
    /\ UNCHANGED <<txNodes, attributes, instances, building_message,
                   can_msg, line_number, line, lines_read, block, closed>>

\* the file is exhausted: lines 162-164
EndOfFile ==
    /\ instances > 0
    /\ status[self] = "loading"
    /\ iter_index' = [iter_index EXCEPT ![self] = 0]
    /\ Leaves("self")
    /\ UNCHANGED <<messages, txNodes, attributes, instances, building_message,
                   can_msg, line_number, line, lines_read, block, closed>>

Next ==
    \/ NewDatabase
    \/ LoadOpen
    \/ LoadOpenFails
    \/ ReadTransmittingNodes
    \/ ReadMessageHeader
    \/ ReadSignal
    \/ ReadBlank
    \/ ReadValue
    \/ ReadAttributeDefinition
    \/ ReadAttribute
    \/ ReadComment
    \/ ReadOther
    \/ EndOfFile

Spec == Init /\ [][Next]_vars

(***************************************************************************)
(* What the properties below speak of.                                     *)
(***************************************************************************)
\* this step reads line i
ReadsLine(i) == line' = i /\ lines_read' = lines_read + 1

\* this step reads line i and the given branch of Load takes it
Takes(i, branch) == ReadsLine(i) /\ BranchOf(building_message, i) = branch

\* the completed messages with the given identifier
WithId(msgs, id) == {j \in 1..Len(msgs) : msgs[j].canID = id}

\* the positions of the signals of a message with the given name
Named(msg, name) == {k \in 1..Len(msg.signals) : msg.signals[k].name = name}

\* a message without its iteration cursor
Content(msg) == [msg EXCEPT !.iter_index = 0]
Contents(msgs) == [j \in 1..Len(msgs) |-> Content(msgs[j])]

\* the fields a header line gives a message
HeaderFields(msg) == <<msg.canID, msg.name, msg.dlc, msg.txNode>>

\* the tokens of a VAL_ line after the signal name: codes and names in turn
ValueTokens(i) ==
    LET tokens == valueLineSplit(Lines[i]) IN Slice(tokens, 4, Len(tokens))

(***************************************************************************)
(* C1.  When a VAL_ line names the identifier of a completed message and   *)
(* the name of a signal in it, then after the line that signal's           *)
(* enumeration mapping is exactly the line's (code, name) pairs in line    *)
(* order, whatever VAL_, BA_ or CM_ lines were processed before it.        *)
(* Stated for every step that reads such a line; the code does not         *)
(* satisfy it (the lookup starts where the last lookup stopped).           *)
(***************************************************************************)
C1_NamesSignal(i) ==
    /\ ValueOf[i].outcome = "ok"
    /\ \E j \in WithId(messages, ValueOf[i].value[1][2]) :
          Named(messages[j], ValueOf[i].value[1][1]) # {}

C1_Attached(i) ==
    \E j \in WithId(messages', ValueOf[i].value[1][2]) :
        \E k \in Named(messages'[j], ValueOf[i].value[1][1]) :
            messages'[j].signals[k].values = ValueOf[i].value[1][3]

C1_EnumerationAttached ==
    [][\A i \in LineIds :
          Takes(i, "VAL_") /\ C1_NamesSignal(i) => C1_Attached(i)]_vars

(***************************************************************************)
(* C2.  When a BA_ line names the identifier of a completed message, then  *)
(* after the line its (name, value) pair has been appended to the          *)
(* attribute values of exactly one message, one with that identifier,      *)
(* whatever lookup lines were processed before it.  The code does not      *)
(* satisfy it, for the same reason as C1.                                  *)
(***************************************************************************)
C2_AppendedTo(j, attr) ==
    /\ messages'[j].attributes = Append(messages[j].attributes, attr)
    /\ \A k \in 1..Len(messages) :
          k # j => messages'[k].attributes = messages[k].attributes

C2_AttributeAttached ==
    [][\A i \in LineIds :
          /\ Takes(i, "BA_")
          /\ AttributeOf[i].outcome = "ok"
          /\ WithId(messages, AttributeOf[i].value[1].msgID) # {}
          => /\ Len(messages') = Len(messages)
             /\ \E j \in WithId(messages, AttributeOf[i].value[1].msgID) :
                   C2_AppendedTo(j, AttributeOf[i].value[1].attr)]_vars

(***************************************************************************)
(* C3.  When a CM_ line with enough tokens names the identifier of a       *)
(* completed message and the exact name of a signal in it, then after the  *)
(* line that signal's comment is the line's comment text, wherever the     *)
(* message sits in the sequence and whatever lookups came before.  The     *)
(* code does not satisfy it: its message loop looks at one message only,   *)
(* the one under the cursor.                                               *)
(***************************************************************************)
C3_NamesSignal(i) ==
    /\ Len(ComponentsOf[i]) >= 4
    /\ CanInt(ComponentsOf[i][3], Digits)
    /\ \E j \in WithId(messages, ToInt(ComponentsOf[i][3], Digits)) :
          Named(messages[j], ComponentsOf[i][4]) # {}

C3_Commented(i) ==
    \E j \in WithId(messages', ToInt(ComponentsOf[i][3], Digits)) :
        \E k \in Named(messages'[j], ComponentsOf[i][4]) :
            messages'[j].signals[k].comment = Concat(ComponentsOf[i], 5)

C3_CommentAttached ==
    [][\A i \in LineIds :
          Takes(i, "CM_") /\ C3_NamesSignal(i) => C3_Commented(i)]_vars

(***************************************************************************)
(* C4.  The message sequence holds exactly the messages whose header line  *)
(* was closed by a blank line before another header line or the end of     *)
(* the input, in the order they were closed: a message still under         *)
(* construction at the end of the input, or dropped for a new header       *)
(* line, is never in the sequence.                                         *)
(***************************************************************************)
C4_OnlyClosedMessages ==
    /\ Len(messages) = Len(closed)
    /\ \A j \in 1..Len(messages) :
          HeaderFields(messages[j]) = HeaderFields(HeaderOf[closed[j]].value[1])

\* a Load has reached the end of its file with a message under construction,
\* which is not in the sequence, after another message was closed
C4_Witness ==
    /\ instances > 0
    /\ status[self] = "self"
    /\ building_message
    /\ can_msg # None
    /\ Len(messages) = 1
    /\ messages[1].canID # can_msg[1].canID

(***************************************************************************)
(* C5.  Loading one database never changes another: a database created     *)
(* after another was loaded starts with an empty message sequence, no      *)
(* transmitting nodes and no attribute schemas.  The code does not         *)
(* satisfy it: the three lists are class attributes, shared by all         *)
(* instances.                                                              *)
(***************************************************************************)
C5_CreatedEmpty ==
    \A db \in Databases :
        status[db] = "constructed" =>
            /\ Messages(db) = <<>>
            /\ txNodes = <<>>
            /\ attributes = <<>>

(***************************************************************************)
(* C6.  A VAL_ line whose identifier is that of no completed message, or   *)
(* whose signal name is that of no signal of a message with that           *)
(* identifier, raises no error and leaves every message, signal and        *)
(* attribute value, and the message under construction, as they were;      *)
(* ingestion goes on.                                                      *)
(***************************************************************************)
C6_NamesNothing(i) ==
    /\ ValueOf[i].outcome = "ok"
    /\ \A j \in WithId(messages, ValueOf[i].value[1][2]) :
          Named(messages[j], ValueOf[i].value[1][1]) = {}

C6_UnresolvedIgnored ==
    [][\A i \in LineIds :
          Takes(i, "VAL_") /\ C6_NamesNothing(i)
          => /\ Contents(messages') = Contents(messages)
             /\ UNCHANGED <<building_message, can_msg, txNodes, attributes>>
             /\ status'[self] = "loading"]_vars

\* a VAL_ line naming a signal that message 16 does not have was read while
\* message 16 was complete and another message was under construction
C6_Witness ==
    /\ instances > 0
    /\ status[self] = "loading"
    /\ line \in LineIds
    /\ Lines[line] = Line_ValueNoSignal
    /\ WithId(messages, 16) # {}
    /\ building_message

(***************************************************************************)
(* C7.  A header line followed by n >= 0 valid signal lines and then a     *)
(* blank line appends exactly one message, whose identifier, name, byte    *)
(* length and transmitting node are those of the header and whose signals  *)
(* are exactly those n signals in the order of the file (not in start-bit  *)
(* order).                                                                 *)
(***************************************************************************)
\* the signals that the signal lines of the open block declare, in file order
C7_DeclaredSignals ==
    [k \in 1..(Len(block) - 1) |-> SignalOf[block[k + 1]].value[1]]

C7_MessageAppended ==
    [][\A i \in LineIds :
          ReadsLine(i) /\ IsBlankLine(i) /\ block # <<>>
          => /\ Len(messages') = Len(messages) + 1
             /\ SubSeq(messages', 1, Len(messages)) = messages
             /\ LET msg == messages'[Len(messages')]
                IN  /\ HeaderFields(msg) = HeaderFields(HeaderOf[block[1]].value[1])
                    /\ msg.signals = C7_DeclaredSignals]_vars

\* a message of two signals is complete whose second signal starts at a
\* lower bit than its first
C7_Witness ==
    \E j \in 1..Len(messages) :
        /\ Len(messages[j].signals) = 2
        /\ messages[j].signals[2].startbit < messages[j].signals[1].startbit

(***************************************************************************)
(* C8.  The subscribers of every completed message are its signals'        *)
(* receiving-node lists, one after the other in signal order, with every   *)
(* repeated name removed after its first occurrence; they are computed     *)
(* when the blank line closes the message: a message under construction    *)
(* has none yet.                                                           *)
(***************************************************************************)
\* the receiving-node lists of the signals, concatenated
RECURSIVE C8_Receivers(_, _)
C8_Receivers(signals, k) ==
    IF k > Len(signals) THEN <<>>
    ELSE signals[k].rx_nodes \o C8_Receivers(signals, k + 1)

\* the first n elements of s without those that occur earlier in s
RECURSIVE C8_FirstSeen(_, _)
C8_FirstSeen(s, n) ==
    IF n = 0 THEN <<>>
    ELSE IF \E j \in 1..(n - 1) : s[j] = s[n] THEN C8_FirstSeen(s, n - 1)
    ELSE Append(C8_FirstSeen(s, n - 1), s[n])

C8_Expected(msg) ==
    LET all == C8_Receivers(msg.signals, 1) IN C8_FirstSeen(all, Len(all))

C8_SubscribersFirstSeen ==
    /\ \A j \in 1..Len(messages) : messages[j].subscribers = C8_Expected(messages[j])
    /\ can_msg # None => can_msg[1].subscribers = <<>>

\* a completed message whose signals name a node more than once
C8_Witness ==
    \E j \in 1..Len(messages) :
        /\ Len(C8_Receivers(messages[j].signals, 1)) > Len(messages[j].subscribers)
        /\ Len(messages[j].subscribers) >= 2

(***************************************************************************)
(* C9.  No two messages of the sequence have the same identifier, also     *)
(* when two header lines with the same identifier are each closed by a     *)
(* blank line.  The code does not satisfy it: nothing looks at the         *)
(* identifiers already present when a message is appended.                 *)
(***************************************************************************)
C9_UniqueIdentifiers ==
    \A j, k \in 1..Len(messages) :
        j # k => messages[j].canID # messages[k].canID

(***************************************************************************)
(* C10.  A VAL_ line with an odd number of code/name tokens (a code        *)
(* without its name) ends the parse: Load does not return the model, and   *)
(* no line after it is processed.                                          *)
(***************************************************************************)
C10_OddTokens(i) ==
    /\ Len(valueLineSplit(Lines[i])) >= 3
    /\ Len(ValueTokens(i)) % 2 = 1

C10_OddEnumerationFatal ==
    [][/\ \A i \in LineIds :
             Takes(i, "VAL_") /\ C10_OddTokens(i)
             => status'[self] \notin {"loading", "self"}
       /\ (instances > 0 /\ instances' = instances)
             => (status[self] \notin {"constructed", "loading"}
                    => UNCHANGED vars)]_vars

\* Load has returned None at a VAL_ line of an odd number of code/name
\* tokens, with a message complete and another under construction
C10_Witness ==
    /\ instances > 0
    /\ status[self] = "None"
    /\ line \in LineIds
    /\ Lines[line] = Line_ValueOdd
    /\ messages # <<>>
    /\ building_message

\* what Load has built and where it stands in its file
Ingestion == <<messages, txNodes, attributes, building_message, can_msg,
               line, line_number, lines_read>>

(***************************************************************************)
(* C11.  A signal line that fails the signal grammar while a message is    *)
(* under construction ends the whole parse: no signal is appended for it,  *)
(* Load raises instead of returning a model, and after that no line is     *)
(* processed and the message under construction is never appended.         *)
(***************************************************************************)
C11_Raised(db) == status[db] \in {"AttributeError", "ValueError"}

C11_MalformedSignalFatal ==
    [][/\ \A i \in LineIds :
             Takes(i, "SG_") /\ SignalOf[i].outcome # "ok"
             => /\ status'[self] \in {"AttributeError", "ValueError"}
                /\ UNCHANGED <<messages, can_msg>>
       /\ (IF instances = 0 THEN FALSE ELSE C11_Raised(self))
             => UNCHANGED Ingestion]_vars

\* Load has raised at a signal line that fails the grammar, read while a
\* message with a signal was under construction, with lines still to come
C11_Witness ==
    /\ instances > 0
    /\ status[self] = "AttributeError"
    /\ line \in LineIds
    /\ Lines[line] = Line_SignalBad
    /\ building_message
    /\ can_msg # None
    /\ Len(can_msg[1].signals) = 1
    /\ lines_read < MaxLines

(***************************************************************************)
(* C12.  A CM_ line of at most two space-separated tokens stops the        *)
(* processing of the rest of the source: Load returns the model built so   *)
(* far (not an error), no later line changes the model, and a message      *)
(* under construction at that point is never appended.                     *)
(***************************************************************************)
C12_ShortCommentHalts ==
    [][/\ \A i \in LineIds :
             Takes(i, "CM_") /\ Len(ComponentsOf[i]) <= 2
             => /\ status'[self] = "self"
                /\ UNCHANGED <<messages, txNodes, attributes, building_message,
                               can_msg>>
       /\ (IF instances = 0 THEN FALSE ELSE status[self] = "self")
             => UNCHANGED Ingestion]_vars

\* Load has returned the model at a CM_ line of two tokens, read while a
\* message was under construction and another was complete, with lines
\* still to come
C12_Witness ==
    /\ instances > 0
    /\ status[self] = "self"
    /\ line \in LineIds
    /\ Lines[line] = Line_CommentShort
    /\ building_message
    /\ can_msg # None
    /\ Len(messages) = 1
    /\ lines_read < MaxLines

(***************************************************************************)
(* C13.  For every line given to it, the tokenizer of VAL_ lines returns   *)
(* all the tokens found by splitting the line at each space outside        *)
(* double quotes, the quote characters removed, the last token (which      *)
(* runs to the end of the line) included.  The code does not satisfy it:   *)
(* valueLineSplit appends a token only when it meets a space, so the last  *)
(* token of every line is lost.                                            *)
(***************************************************************************)
\* the tokens of line from character i on: part is the token begun, quoted
\* tells whether a quote is open
RECURSIVE C13_TokensFrom(_, _, _, _)
C13_TokensFrom(text, i, part, quoted) ==
    IF i > Len(text) THEN <<part>>
    ELSE IF text[i] = Quote THEN C13_TokensFrom(text, i + 1, part, ~quoted)
    ELSE IF text[i] = " " /\ ~quoted
        THEN <<part>> \o C13_TokensFrom(text, i + 1, <<>>, quoted)
    ELSE C13_TokensFrom(text, i + 1, Append(part, text[i]), quoted)

C13_Tokens(text) == C13_TokensFrom(text, 1, <<>>, FALSE)

\* the line Load read last went through the tokenizer
C13_Tokenized == line \in LineIds /\ BranchWhileIdle[line] = "VAL_"

C13_AllTokensReturned ==
    C13_Tokenized => valueLineSplit(Lines[line]) = C13_Tokens(Lines[line])

(***************************************************************************)
(* C14.  A VAL_, BA_ or CM_ line changes only a message that was           *)
(* completed earlier in the file it stands in, never the message under     *)
(* construction nor one whose header comes later.  Stated in the case the  *)
(* lines read so far decide: a message takes a header line and a blank     *)
(* line to complete, so a lookup line that is the first or second line of  *)
(* its file has no message it may change.  The code does not satisfy it:   *)
(* the lookups run over the class-level list, which holds the messages     *)
(* that earlier Loads of the process completed (see C5).                   *)
(***************************************************************************)
C14_LookupLine(i) ==
    \/ Takes(i, "VAL_")
    \/ Takes(i, "BA_")
    \/ Takes(i, "CM_")

C14_OnlyEarlierInFile ==
    [][\A i \in LineIds :
          C14_LookupLine(i) /\ line_number < 2
          => /\ Contents(messages') = Contents(messages)
             /\ UNCHANGED can_msg]_vars

(***************************************************************************)
(* C15.  Once a message is in the sequence, no later line changes its      *)
(* identifier, name, byte length, transmitting node, which signals it has  *)
(* and in what order, or its subscribers; all that changes afterwards is   *)
(* a signal's enumeration mapping and comment and the message's attribute  *)
(* values.                                                                 *)
(***************************************************************************)
\* a signal without its enumeration mapping and its comment
C15_Signal(signal) == [signal EXCEPT !.values = <<>>, !.comment = <<>>]

\* a message without what may change after it was appended (and without
\* its iteration cursor)
C15_Frozen(msg) ==
    [msg EXCEPT !.attributes = <<>>,
                !.iter_index = 0,
                !.signals = [k \in 1..Len(msg.signals) |-> C15_Signal(msg.signals[k])]]

C15_AppendedIsFrozen ==
    [][/\ Len(messages') >= Len(messages)
       /\ \A j \in 1..Len(messages) :
             C15_Frozen(messages'[j]) = C15_Frozen(messages[j])]_vars

\* a completed message has got an enumeration mapping for a signal, and a
\* line of another kind was read after that
C15_Witness ==
    /\ line \in LineIds
    /\ BranchWhileIdle[line] \in {"BA_", "CM_", "BO_", "BU_"}
    /\ \E j \in 1..Len(messages) :
          \E k \in 1..Len(messages[j].signals) :
              messages[j].signals[k].values # <<>>

(***************************************************************************)
(* C16.  BU_, BA_DEF_, VAL_, BA_ and unrecognized lines never change the   *)
(* ingestion state: a message under construction before the line is still  *)
(* under construction after it, with the same header fields and signals,   *)
(* and an idle Load stays idle; an unrecognized line moreover changes      *)
(* nothing in the model.                                                   *)
(***************************************************************************)
C16_StateKeepingLine(i) ==
    \/ Takes(i, "BU_")
    \/ Takes(i, "BA_DEF_")
    \/ Takes(i, "VAL_")
    \/ Takes(i, "BA_")
    \/ Takes(i, "other")

C16_IngestionStateKept ==
    [][\A i \in LineIds :
          /\ C16_StateKeepingLine(i) => UNCHANGED <<building_message, can_msg>>
          /\ Takes(i, "other")
             => UNCHANGED <<messages, txNodes, attributes, status, iter_index>>]_vars

\* an unrecognized line was read while a message with a signal was under
\* construction, and Load goes on with it
C16_Witness ==
    /\ instances > 0
    /\ status[self] = "loading"
    /\ line \in LineIds
    /\ Lines[line] = Line_Other
    /\ building_message
    /\ can_msg # None
    /\ can_msg[1].signals # <<>>

(***************************************************************************)
(* C17.  While no message is under construction, a blank line and a        *)
(* signal line do nothing: no message and no signal is appended, the       *)
(* state stays idle, and the signal line is not run through the grammar,   *)
(* so one that the grammar rejects raises nothing.                         *)
(***************************************************************************)
C17_IdleNoOps ==
    [][\A i \in LineIds :
          ReadsLine(i) /\ ~building_message /\ (IsBlankLine(i) \/ IsSignalLine(i))
          => UNCHANGED <<messages, txNodes, attributes, status, iter_index,
                         building_message, can_msg>>]_vars

\* a signal line that the grammar rejects was read while no message was
\* under construction, after a message was completed, and Load goes on
C17_Witness ==
    /\ instances > 0
    /\ status[self] = "loading"
    /\ line \in LineIds
    /\ Lines[line] = Line_SignalBad
    /\ ~building_message
    /\ messages # <<>>

(***************************************************************************)
(* C18.  Every iteration over the messages of a database starts at the     *)
(* first message and gives each message once, in order, also when the      *)
(* iteration before it was left with a break.  Stated for the lookups of   *)
(* Load: the message a VAL_ or BA_ lookup stops at is the first of the     *)
(* whole sequence with the identifier, and a CM_ lookup begins with the    *)
(* cursor on no message.  The code does not satisfy it: __iter__ returns   *)
(* the database without moving _iter_index, which a break leaves on the    *)
(* message it matched.                                                     *)
(***************************************************************************)
\* the index of the first message of the sequence with the identifier, 0
\* when there is none
C18_FirstWithId(id) ==
    IF WithId(messages, id) = {} THEN 0
    ELSE CHOOSE j \in WithId(messages, id) : \A k \in WithId(messages, id) : j <= k

C18_IterationFromFirst ==
    [][\A i \in LineIds :
          /\ Takes(i, "VAL_") /\ ValueOf[i].outcome = "ok"
             => iter_index'[self] = C18_FirstWithId(ValueOf[i].value[1][2])
          /\ Takes(i, "BA_") /\ AttributeOf[i].outcome = "ok"
             => iter_index'[self] = C18_FirstWithId(AttributeOf[i].value[1].msgID)
          /\ Takes(i, "CM_") /\ Len(ComponentsOf[i]) > 2
             => iter_index[self] = 0]_vars

(***************************************************************************)
(* C19.  No message, completed or under construction, has two signals of   *)
(* the same name, also when the source gives two signal lines of the same  *)
(* name inside one message.  The code does not satisfy it: AddSignal       *)
(* appends whatever it is given.                                           *)
(***************************************************************************)
C19_NamesDiffer(msg) ==
    \A k, l \in 1..Len(msg.signals) :
        k # l => msg.signals[k].name # msg.signals[l].name

C19_UniqueSignalNames ==
    /\ \A j \in 1..Len(messages) : C19_NamesDiffer(messages[j])
    /\ can_msg # None => C19_NamesDiffer(can_msg[1])

====
